---- MODULE Spec2Model ----
(***************************************************************************)
(* SocialSEO AI: the App component (handleAnalyze and the input widgets)   *)
(* and the geminiService request orchestrator (analyzeContent,             *)
(* uploadLargeFile, fileToPart), as a state machine.                       *)
(*                                                                         *)
(* JavaScript runs each handler to its next await without interruption,    *)
(* so one action is one such run: a click handler, or the continuation of  *)
(* an async function after the promise it awaits has settled.  pc names    *)
(* the await analyzeContent is suspended at.                               *)
(*                                                                         *)
(*   Spec             the App: the user edits inputs, clicks the action    *)
(*                    button, the service answers, handleAnalyze resumes.  *)
(*   SpecService      analyzeContent called as the exported function,      *)
(*                    with any arguments.                                  *)
(*   SpecServiceFair  SpecService, where every pending service call,       *)
(*                    file read and timer eventually settles.              *)
(*   SpecFair         Spec, where every due timer runs and every file      *)
(*                    read and file-API call settles.                      *)
(*   SpecTrend        Spec with the trend grid's "use this trend" button.  *)
(*   SpecPrompt       the prompt analyzeContent composes, for any mode,    *)
(*                    platform and configuration.                          *)
(*   SpecGate         the key gate: mount, typing and saving a key,        *)
(*                    Change Key, reload.                                  *)
(*   SpecProgress     the loading view: the loading effect and the ticks   *)
(*                    of its interval as steps of their own.               *)
(*                                                                         *)
(* Spec starts behind an open gate and leaves the gate and the loading     *)
(* view as they are.                                                       *)
(***************************************************************************)
EXTENDS Integers, Sequences, FiniteSets, TLC

VARIABLES
    \* ---- App state (useState hooks)
    apiKey,          \* string
    mode,            \* AppMode
    platform,        \* Platform
    files,           \* FileInput[]: the selected files, in order
    config,          \* ConfigState
    isAnalyzing,     \* boolean
    result,          \* AnalysisResult | null (Nil)
    trendResults,    \* TrendItem[] | null: Items(<<...>>) or Nil
    error,           \* string | null
    handler,         \* handleAnalyze: "none", or "awaiting" analyzeContent
    showGatekeeper,  \* boolean: the key gate is shown instead of the main screen
    tempKey,         \* string: the key typed into the gate
    storedKey,       \* localStorage 'gemini_api_key', Null when absent
    loadingProgress, \* number
    interval,        \* the setInterval of the loading effect is running
    effectDeps,      \* the dependencies the loading effect last ran with
    \* ---- one invocation of analyzeContent
    pc,              \* the await it is suspended at, or how it ended
    call,            \* the arguments it still reads after its first await
    parts,           \* const parts: any[]
    idx,             \* position of the for..of loop over files (1-based)
    attempts,        \* let attempts, of uploadLargeFile
    fileInfo,        \* let fileInfo.state, of uploadLargeFile
    generateConfig,  \* const generateConfig
    timer,           \* the setTimeout(() => controller.abort(), 60000)
    aborted,         \* controller.signal.aborted
    net,             \* the calls issued so far to the AI service and the FileReader
    outcome          \* how the returned promise settled

\* the key gate and the loading view
sideVars == <<showGatekeeper, tempKey, storedKey, loadingProgress, interval, effectDeps>>
uiVars  == <<apiKey, mode, platform, files, config, isAnalyzing, result, trendResults, error, handler,
             showGatekeeper, tempKey, storedKey, loadingProgress, interval, effectDeps>>
svcVars == <<pc, call, parts, idx, attempts, fileInfo, generateConfig, timer, aborted, net, outcome>>
vars    == <<apiKey, mode, platform, files, config, isAnalyzing, result, trendResults, error, handler,
             showGatekeeper, tempKey, storedKey, loadingProgress, interval, effectDeps,
             pc, call, parts, idx, attempts, fileInfo, generateConfig, timer, aborted, net, outcome>>

(***************************************************************************)
(* Bounds of the model.                                                    *)
(***************************************************************************)
\* the longest file list the user builds or a caller passes
MaxFiles == 2

(***************************************************************************)
(* Program constants.                                                      *)
(***************************************************************************)
MiB == 1024 * 1024
\* const FILE_SIZE_THRESHOLD = 20 * 1024 * 1024
FILE_SIZE_THRESHOLD == 20 * 1024 * 1024
\* const MAX_TOTAL_SIZE = 100 * 1024 * 1024
MAX_TOTAL_SIZE == 100 * 1024 * 1024
\* export const MAX_FILE_SIZE_MB = 10240
MAX_FILE_SIZE_MB == 10240
\* while (fileInfo.state === 'PROCESSING' && attempts < 30)
MaxAttempts == 30

\* AppMode
GENERATION     == "GENERATION"
REFINE         == "REFINE"
COMPETITOR_SPY == "COMPETITOR_SPY"
TREND_HUNTER   == "TREND_HUNTER"
AppMode        == {GENERATION, REFINE, COMPETITOR_SPY, TREND_HUNTER}

\* Platform
INSTAGRAM == "Instagram"
TWITTER   == "Twitter (X)"
Platform  == {INSTAGRAM, TWITTER}

\* null / undefined, where a string is expected
Null == "null"

\* null / undefined, where an object or an array is expected
Nil == [nil |-> TRUE]

\* a TrendItem[] held in React state
Items(seq) == [items |-> seq]

(***************************************************************************)
(* Input domains.                                                          *)
(***************************************************************************)
File(n, s) == [name |-> n, size |-> s]

\* The files the user can pick: two that are read inline, one on each side of
\* nothing but the 20 MiB cutoff, and a large one that brings the total of a
\* list to exactly 100 MiB with the first and to 100 MiB + 1 with the second.
Catalogue ==
    { File("clip.mp4",  FILE_SIZE_THRESHOLD - 1),
      File("photo.png", FILE_SIZE_THRESHOLD),
      File("movie.mp4", MAX_TOTAL_SIZE - FILE_SIZE_THRESHOLD + 1) }

\* The files a direct caller of analyzeContent passes: also one just above
\* the cutoff.
ServiceFiles == Catalogue \cup { File("reel.mp4", FILE_SIZE_THRESHOLD + 1) }

SeqsUpTo(S, n) == UNION { [1..k -> S] : k \in 0..n }

Texts(t) == {"", t}

\* const [config, setConfig] = useState<ConfigState>({...})
InitialConfig ==
    [ goal             |-> "Viral Growth",
      style            |-> "Authentic",
      keywords         |-> "",
      originalText     |-> "",
      geography        |-> "",
      targetAudience   |-> "",
      targetLanguage   |-> "",
      demographics     |-> "",
      enableLiveTrends |-> FALSE,
      brandGuidelines  |-> "",
      niche            |-> "" ]

\* The configs the modes' required inputs and the live-trend toggle produce.
Configs ==
    { [InitialConfig EXCEPT !.originalText = o, !.niche = n, !.enableLiveTrends = l] :
        o \in Texts("my draft"), n \in Texts("Vegan Cooking"), l \in BOOLEAN }

ValidKey == "AIzaKey"

(***************************************************************************)
(* Prompt composition (analyzeContent, step 1).  A string the prompt code  *)
(* builds is the sequence of its pieces: runs of fixed text, interpolated  *)
(* values, line breaks and runs of indentation.  Concatenation is \o.      *)
(***************************************************************************)
\* JavaScript truthiness of a string
Truthy(s) == s # ""

\* a || b on strings
OrElse(a, b) == IF Truthy(a) THEN a ELSE b

\* a line break
NL == "\n"

\* the four spaces the lines of MODE_PROMPTS start with
Indent == "    "

\* ${v} in a template literal
Value(v) == IF v = "" THEN << >> ELSE << v >>

\* new Date().toLocaleString('default', { month: 'long', year: 'numeric' })
CurrentDate == "November 2026"

\* truthiness of a built string: it is not the empty string
TruthyText(t) == t # << >>

\* .filter(Boolean)
FilterTruthy(seq) == SelectSeq(seq, TruthyText)

\* .join('\n')
RECURSIVE Join(_)
Join(strs) ==
    IF strs = << >> THEN << >>
    ELSE IF Len(strs) = 1 THEN strs[1]
    ELSE strs[1] \o << NL >> \o Join(Tail(strs))

\* const targeting = [...].filter(Boolean).join('\n')
Targeting(cfg) ==
    Join(FilterTruthy(<<
        IF Truthy(cfg.geography)      THEN << "Target Geography: ", cfg.geography >> ELSE << >>,
        IF Truthy(cfg.targetAudience) THEN << "Target Audience: ", cfg.targetAudience >> ELSE << >>,
        IF Truthy(cfg.targetLanguage) THEN << "Target Language: ", cfg.targetLanguage >> ELSE << >>,
        IF Truthy(cfg.demographics)   THEN << "Target Demographics: ", cfg.demographics >> ELSE << >> >>))

\* the line STEP 1b of TREND_HUNTER_INSTRUCTION
Step1b ==
    "STEP 1b: Specifically SEARCH for \"Trending topics on Twitter today\" and \"Viral discussions on X\"."

\* TREND_HUNTER_INSTRUCTION(currentDate, platform)
TrendHunterInstruction(currentDate, p) ==
    << NL, "**LIVE TREND MODE ENABLED**", NL,
       "STEP 1: You have access to Google Search. Before analyzing the video, SEARCH for \"Current viral trends ",
       currentDate, "\" and \"Trending audio for [Niche] on Instagram/TikTok\".", NL >>
    \o (IF p = TWITTER THEN << Step1b >> ELSE << >>)
    \o << NL,
          "STEP 2: Use this live data to suggest a specific trending audio or challenge format that fits the user's video.", NL,
          "STEP 3: Mention the trend name in the reasoning section (specifically in the 'trendDetected' field).", NL >>

\* BRAND_GUARD_INSTRUCTION(brandText)
BrandGuardInstruction(brandText) ==
    << NL, "**BRAND GUARD ACTIVE**", NL,
       "The user has provided strict Brand Guidelines. You MUST adhere to the following rules:", NL,
       "\"" >> \o Value(brandText) \o << "\"", NL,
       "- If the generated content violates these rules, the analysis is a failure.", NL,
       "- Adapt all specific stylistic choices to match this brand voice.", NL >>

\* the line that promptText gets in every standard mode
JsonReminder ==
    "IMPORTANT: You MUST return a valid JSON object matching the AnalysisResult structure. Do not include markdown formatting."

\* MODE_PROMPTS.GENERATION(platform, goal, style, targeting)
GenerationPrompt(p, goal, style, targeting) ==
    << NL, Indent, "MODE A: GENERATION (The Creator).", NL,
       Indent, "Target Platform: " >> \o Value(p) \o << ".", NL,
       Indent, "User Goal: " >> \o Value(goal) \o << ".", NL,
       Indent, "Desired Style: " >> \o Value(style) \o << ".", NL,
       Indent >> \o targeting \o << NL,
       Indent, NL,
       Indent, "Analyze the provided input (Image/Video). ", NL,
       Indent, "Identify the visual hook, select a viral style, write the caption, and generate SEO.", NL,
       Indent, NL,
       Indent, "If Platform is Twitter (X): Structure the 'caption' as a Thread (Tweet 1 [Hook] ", NL, NL,
       " Tweet 2... etc).", NL,
       Indent, "If Platform is Facebook: Optimize for 'Shareability' and community discussion.", NL,
       Indent, NL,
       Indent, "Return a JSON object matching the AnalysisResult interface.", NL,
       "  " >>

\* MODE_PROMPTS.REFINE(originalText, keywords, targeting)
RefinePrompt(originalText, keywords, targeting) ==
    << NL, Indent, "MODE B: REFINE DRAFT (The Editor).", NL,
       Indent, "Context/Keywords: " >> \o Value(keywords) \o << ".", NL,
       Indent, "Original Draft: \"" >> \o Value(originalText) \o << "\".", NL,
       Indent >> \o targeting \o << NL,
       Indent, NL,
       Indent, "Action: Semantic Weaving. Insert high-volume keywords naturally without disrupting narrative flow.", NL,
       Indent, "Maintain original meaning 100%. Polish grammar. Enhance readability score.", NL,
       Indent, "Return a JSON object where the 'strategy.caption' is the refined text, and fill other fields based on analysis of the text.", NL,
       "  " >>

\* MODE_PROMPTS.COMPETITOR_SPY(count, targeting)
CompetitorSpyPrompt(count, targeting) ==
    << NL, Indent, "MODE C: COMPETITOR SPY (The Reverse Engineer).", NL,
       Indent, "Analyzing ", ToString(count), " inputs as a \"Data Set\".", NL,
       Indent >> \o targeting \o << NL,
       Indent, "Do NOT analyze individually. Look for patterns.", NL,
       Indent, "Deconstruct the \"Viral DNA\": Pacing, Color Psychology, Hook ID.", NL,
       Indent, NL,
       Indent, "Return a JSON object. ", NL,
       Indent, "- In 'visualAudit.summary', describe the common pattern found across all inputs.", NL,
       Indent, "- In 'strategy.caption', provide a fill-in-the-blank Viral Template tailored to the target audience.", NL,
       Indent, "- In 'competitorInsights', fill the object with 'visualTheme', 'ctaStrategy', and 'formula'.", NL,
       "  " >>

\* MODE_PROMPTS.TREND_HUNTER(niche, currentDate)
TrendHunterPrompt(niche, currentDate) ==
    << NL, Indent, "MODE: TREND HUNTER.", NL,
       Indent, "Niche: " >> \o Value(niche) \o << ".", NL,
       Indent, "Date: ", currentDate, ".", NL,
       Indent, NL,
       Indent, "STEP 1: Search Google Trends, Twitter Trending, and TikTok Creative Center for the absolute latest news and trends in the " >>
    \o Value(niche) \o << " niche RIGHT NOW.", NL,
       Indent, "STEP 2: Select 5 specific, high-potential content ideas.", NL,
       Indent, NL,
       Indent, "Return a JSON object containing an array called \"trends\".", NL,
       Indent, "Structure:", NL,
       Indent, "{", NL,
       Indent, "  \"trends\": [", NL,
       Indent, "    {", NL,
       Indent, "      \"headline\": \"Trend Name\",", NL,
       Indent, "      \"whyItsHot\": \"1 sentence explanation of why it is viral now.\",", NL,
       Indent, "      \"contentIdea\": \"Specific instruction on how to apply this to the niche.\"", NL,
       Indent, "    },", NL,
       Indent, "    ... (5 items)", NL,
       Indent, "  ]", NL,
       Indent, "}", NL,
       "  " >>

\* the mode's entry of MODE_PROMPTS, with the arguments analyzeContent passes
ModePrompt(m, p, cfg, nFiles) ==
    CASE m = GENERATION ->
           GenerationPrompt(p, OrElse(cfg.goal, "Viral Growth"), OrElse(cfg.style, "Authentic"),
                            Targeting(cfg))
      [] m = REFINE ->
           RefinePrompt(OrElse(cfg.originalText, ""), OrElse(cfg.keywords, ""), Targeting(cfg))
      [] m = COMPETITOR_SPY ->
           CompetitorSpyPrompt(nFiles, Targeting(cfg))
      [] m = TREND_HUNTER ->
           TrendHunterPrompt(cfg.niche, CurrentDate)
      [] OTHER -> << >>

\* promptText, once the niche check has passed
PromptText(m, p, cfg, nFiles) ==
    IF m = TREND_HUNTER
    THEN ModePrompt(m, p, cfg, nFiles)
    ELSE (IF cfg.enableLiveTrends
          THEN TrendHunterInstruction(CurrentDate, p) \o << NL, NL >> ELSE << >>)
         \o (IF Truthy(cfg.brandGuidelines)
             THEN BrandGuardInstruction(cfg.brandGuidelines) \o << NL, NL >> ELSE << >>)
         \o << JsonReminder, NL, NL >>
         \o ModePrompt(m, p, cfg, nFiles)

(***************************************************************************)
(* Errors.  An error is its name and its message; the messages are the     *)
(* literals of the source, and Includes is String.prototype.includes on    *)
(* them for the four needles the final catch looks for.                    *)
(***************************************************************************)
Err(n, m) == [name |-> n, message |-> m]

MsgApiKeyMissing   == "API Key is missing."
MsgNicheRequired   == "Niche is required for Trend Hunter."
MsgProcessingFailed == "File processing failed on Gemini server."
MsgUploadFailed    == "Failed to upload large file to Gemini. Please try a smaller file."
MsgNoResponse      == "No response from AI"
MsgNoValidTrends   == "No valid trends found. Please try again with a different niche or check your internet connection."
MsgAbortTimedOut   == "Request timed out. The API took too long to respond. Please try again with a smaller file or simpler request."
MsgTooLarge        == "The file is too large for the current connection. Please try a smaller file."
MsgTimedOut        == "Request timed out. Please check your internet connection and try again."
MsgConnectionFailed == "Connection Failed. Please check your API Key or Internet connection."

\* what the SDK, JSON.parse and the FileReader throw
MsgFetchFailed     == "fetch failed"
Msg413             == "got status: 413 Request Entity Too Large"
MsgDeadline        == "The operation was aborted due to timeout"
MsgPayload         == "Request payload size is too large"
MsgSocket          == "Connection timed out"
MsgSyntaxError     == "Unexpected token in JSON"

\* the errors a call to the AI service rejects with
TransportErrors ==
    { Err("TypeError", MsgFetchFailed), Err("ApiError", Msg413), Err("TimeoutError", MsgDeadline),
      Err("ApiError", MsgPayload), Err("Error", MsgSocket) }

\* reader.onerror = reject: the promise rejects with the ProgressEvent, which
\* has no message
ReadError == Err("ProgressEvent", Null)

Needles(msg) ==
    CASE msg = Msg413           -> {"413"}
      [] msg = MsgTooLarge      -> {"too large"}
      [] msg = MsgPayload       -> {"too large"}
      [] msg = MsgSocket        -> {"timed out"}
      [] msg = MsgDeadline      -> {"timeout"}
      [] msg = MsgAbortTimedOut -> {"timed out"}
      [] msg = MsgTimedOut      -> {"timed out"}
      [] OTHER                  -> {}

\* error.message?.includes(needle)
Includes(msg, needle) == msg # Null /\ needle \in Needles(msg)

\* a variant of the final catch that rethrows the error it caught
UserFacingError_Raw(e) == e

\* catch (error: any) { ... } of analyzeContent: the error it rethrows
UserFacingError(e) ==
    IF Includes(e.message, "413") \/ Includes(e.message, "too large")
    THEN Err("Error", MsgTooLarge)
    ELSE IF Includes(e.message, "timeout") \/ Includes(e.message, "timed out")
    THEN Err("Error", MsgTimedOut)
    ELSE Err("Error", MsgConnectionFailed)

\* catch (timeoutError: any) { ... } around the generation call
InnerCatch(e) ==
    IF e.name = "AbortError" THEN Err("Error", MsgAbortTimedOut) ELSE e

(***************************************************************************)
(* The state of one invocation of analyzeContent, as a record, and the     *)
(* runs of its code between two awaits, as operators on that record.       *)
(***************************************************************************)
NoCalls == [upload |-> 0, get |-> 0, read |-> 0, generate |-> 0]

\* no invocation
Idle ==
    [ pc |-> "idle", call |-> Nil, parts |-> << >>, idx |-> 0, attempts |-> 0,
      fileInfo |-> Null, generateConfig |-> Nil, timer |-> "none", aborted |-> FALSE,
      net |-> NoCalls, outcome |-> Nil ]

Svc ==
    [ pc |-> pc, call |-> call, parts |-> parts, idx |-> idx, attempts |-> attempts,
      fileInfo |-> fileInfo, generateConfig |-> generateConfig, timer |-> timer,
      aborted |-> aborted, net |-> net, outcome |-> outcome ]

SetSvc(s) ==
    /\ pc' = s.pc
    /\ call' = s.call
    /\ parts' = s.parts
    /\ idx' = s.idx
    /\ attempts' = s.attempts
    /\ fileInfo' = s.fileInfo
    /\ generateConfig' = s.generateConfig
    /\ timer' = s.timer
    /\ aborted' = s.aborted
    /\ net' = s.net
    /\ outcome' = s.outcome

\* a variant of a throw that resolves the promise with what was built so far
Throw_Resolves(s, e) ==
    [s EXCEPT !.pc = "returned", !.outcome = [kind |-> "value", value |-> s.parts]]

\* the promise rejects: every throw inside analyzeContent passes its final catch
Throw(s, e) ==
    [s EXCEPT !.pc = "threw", !.outcome = [kind |-> "error", error |-> UserFacingError(e)]]

\* the promise resolves
Return(s, v) ==
    [s EXCEPT !.pc = "returned", !.outcome = [kind |-> "value", value |-> v]]

\* a variant of useSearch that ignores the live-trends toggle
UseSearch_ModeOnly(m, enableLiveTrends) == m = TREND_HUNTER

\* const useSearch = mode === AppMode.TREND_HUNTER || config.enableLiveTrends
UseSearch(m, enableLiveTrends) == m = TREND_HUNTER \/ enableLiveTrends

\* 3. Configure Request: the keys of generateConfig
GenerateConfig(m, enableLiveTrends) ==
    LET base == [systemInstruction |-> "SYSTEM_INSTRUCTION", thinkingBudget |-> 1024]
    IN  IF UseSearch(m, enableLiveTrends)
        THEN base @@ [tools |-> <<"googleSearch">>]
        ELSE base @@ [responseMimeType |-> "application/json", responseSchema |-> "AnalysisResult"]

\* a variant of the generation step that issues the call a second time
IssueGenerate_Twice(s) ==
    [s EXCEPT !.generateConfig = GenerateConfig(s.call.mode, s.call.enableLiveTrends),
              !.timer = "armed",
              !.aborted = FALSE,
              !.net.generate = @ + 2,
              !.pc = "generate"]

\* steps 3 and 5, to the await of ai.models.generateContent: the config is
\* built, the 60 s timer is armed and the call is issued.  The controller's
\* signal is handed to nobody.
IssueGenerate(s) ==
    [s EXCEPT !.generateConfig = GenerateConfig(s.call.mode, s.call.enableLiveTrends),
              !.timer = "armed",
              !.aborted = FALSE,
              !.net.generate = @ + 1,
              !.pc = "generate"]

\* a variant of the size test that uploads at the threshold too
UsesUpload_AtOrAbove(file) == file.size >= FILE_SIZE_THRESHOLD

\* if (file.size > FILE_SIZE_THRESHOLD)
UsesUpload(file) == file.size > FILE_SIZE_THRESHOLD

\* a variant of the mode test that processes the files in every mode
ProcessesFiles_Always(m) == TRUE

\* if (mode !== AppMode.TREND_HUNTER): are the files processed at all
ProcessesFiles(m) == m # TREND_HUNTER

\* resolve({ inlineData: { data, mimeType } })
InlinePart(file) == [inlineData |-> [data |-> file.name, mimeType |-> "type"]]

\* return { fileData: { fileUri, mimeType } }
FilePart(file) == [fileData |-> [fileUri |-> file.name, mimeType |-> "type"]]

\* 2. Prepare Multimedia Parts: the for..of loop arriving at file i.  A large
\* file is submitted (uploadLargeFile, to its first await), a small one is
\* handed to the FileReader (fileToPart); after the last file the request is
\* built and issued.
EncodeFrom(s, i) ==
    IF ProcessesFiles(s.call.mode) /\ i <= Len(s.call.files)
    THEN IF UsesUpload(s.call.files[i])
         THEN [s EXCEPT !.idx = i, !.pc = "upload", !.attempts = 0,
                        !.net.upload = @ + 1, !.net.get = 0]
         ELSE [s EXCEPT !.idx = i, !.pc = "read", !.net.read = @ + 1]
    ELSE IssueGenerate([s EXCEPT !.idx = i])

\* parts.push(part), and on to the next file
PushPart(s, part) ==
    EncodeFrom([s EXCEPT !.parts = Append(@, part), !.attempts = 0, !.net.get = 0], s.idx + 1)

\* analyzeContent from its first line to its first await
Start(fs, m, p, cfg, key) ==
    LET s == [Idle EXCEPT !.call = [mode |-> m, files |-> fs,
                                    enableLiveTrends |-> cfg.enableLiveTrends]]
    IN  IF ~Truthy(key) THEN Throw(s, Err("Error", MsgApiKeyMissing))
        ELSE IF m = TREND_HUNTER /\ ~Truthy(cfg.niche)
        THEN Throw(s, Err("Error", MsgNicheRequired))
        ELSE EncodeFrom([s EXCEPT !.parts = << [text |-> PromptText(m, p, cfg, Len(fs))] >>], 1)

\* a variant of the loop test that allows one more poll
KeepsPolling_OneMore(state, n) == state = "PROCESSING" /\ n <= MaxAttempts

\* while (fileInfo.state === 'PROCESSING' && attempts < 30)
KeepsPolling(state, n) == state = "PROCESSING" /\ n < MaxAttempts

\* uploadLargeFile after a files.get has answered: the loop test, then either
\* the 2 s wait and the next query, or the end of polling
AfterGet(s) ==
    IF KeepsPolling(s.fileInfo, s.attempts)
    THEN [s EXCEPT !.pc = "poll", !.net.get = @ + 1]
    ELSE IF s.fileInfo = "FAILED"
    THEN Throw(s, Err("Error", MsgUploadFailed))
    ELSE PushPart(s, FilePart(s.call.files[s.idx]))

FileStates == {"PROCESSING", "ACTIVE", "FAILED"}

(***************************************************************************)
(* The reply of the generation call and its normalisation (step 6).        *)
(* A reply is what response.text holds: nothing, text JSON.parse rejects   *)
(* after cleanJson, or text that parses to an object, given by the object. *)
(***************************************************************************)
TrendItem(h, w, c) == [headline |-> h, whyItsHot |-> w, contentIdea |-> c]

AnalysisObject ==
    [visualAudit |-> "audit", strategy |-> "strategy", seo |-> "seo", virality |-> 82]

TrendsObject ==
    [trends |-> << TrendItem("H1", "W1", "C1"), TrendItem("H2", "W2", "C2") >>]

EmptyTrendsObject == [trends |-> << >>]

SingleTrendObject == [headline |-> "H", contentIdea |-> "C"]

\* an empty trends array next to a top-level headline
HeadlineObject == [trends |-> << >>, headline |-> "H"]

\* a top-level trend field and nothing else
TrendOnlyObject == [trend |-> "T"]

EmptyObject == << >>

\* response.text is a sequence of characters.  A JSON document inside it is
\* one element, named below: a run of text that JSON.parse accepts and that
\* neither is nor borders on whitespace or a backquote.
Documents ==
    {"analysis.json", "trends.json", "emptyTrends.json", "singleTrend.json",
     "headline.json", "trendOnly.json", "empty.json"}

\* the value JSON.parse gives for a document
DocumentValue(d) ==
    CASE d = "analysis.json"    -> AnalysisObject
      [] d = "trends.json"      -> TrendsObject
      [] d = "emptyTrends.json" -> EmptyTrendsObject
      [] d = "singleTrend.json" -> SingleTrendObject
      [] d = "headline.json"    -> HeadlineObject
      [] d = "trendOnly.json"   -> TrendOnlyObject
      [] d = "empty.json"       -> EmptyObject

\* the characters \s matches and trim() removes, of those that occur
Whitespace == {" ", "\n"}

\* the backquote character (U+0060), by name
Backquote == "backquote"

Fence    == << Backquote, Backquote, Backquote >>
JsonTag  == << "j", "s", "o", "n" >>
UpperTag == << "J", "S", "O", "N" >>
JsoncTag == << "j", "s", "o", "n", "c" >>

\* the whitespace runs that occur in a reply
Blanks == { << >>, << "\n" >>, << " ", "\n" >> }

RECURSIVE TrimStart(_)
TrimStart(t) == IF t # << >> /\ Head(t) \in Whitespace THEN TrimStart(Tail(t)) ELSE t

RECURSIVE TrimEnd(_)
TrimEnd(t) ==
    IF t # << >> /\ t[Len(t)] \in Whitespace THEN TrimEnd(SubSeq(t, 1, Len(t) - 1)) ELSE t

\* text.trim()
Trim(t) == TrimEnd(TrimStart(t))

\* t.startsWith(p)
StartsWith(t, p) == Len(t) >= Len(p) /\ SubSeq(t, 1, Len(p)) = p

\* t.endsWith(p)
EndsWith(t, p) == Len(t) >= Len(p) /\ SubSeq(t, Len(t) - Len(p) + 1, Len(t)) = p

\* t.replace(regex, '') where regex is ^, the literal p, then \s* (any whitespace)
ReplaceOpening(t, p) ==
    IF StartsWith(t, p) THEN TrimStart(SubSeq(t, Len(p) + 1, Len(t))) ELSE t

\* t.replace(regex, '') where regex is \s*, the closing fence, then $
ReplaceClosing(t) ==
    IF EndsWith(t, Fence) THEN TrimEnd(SubSeq(t, 1, Len(t) - Len(Fence))) ELSE t

\* const cleanJson = (text: string) => { ... }
cleanJson(text) ==
    LET clean == Trim(text)
    IN  IF StartsWith(clean, Fence \o JsonTag)
        THEN ReplaceClosing(ReplaceOpening(clean, Fence \o JsonTag))
        ELSE IF StartsWith(clean, Fence)
        THEN ReplaceClosing(ReplaceOpening(clean, Fence))
        ELSE clean

\* JSON.parse(t) succeeds: t is one document, with any whitespace around it
Parses(t) == Len(Trim(t)) = 1 /\ Trim(t)[1] \in Documents

\* JSON.parse(t), when it succeeds
JsonParse(t) == DocumentValue(Trim(t)[1])

\* a document d in a fenced block: text before, the opening fence and its
\* tag, the document between two runs of whitespace, the closing fence, text
\* after
Fenced(before, tag, inner1, d, inner2, after) ==
    before \o Fence \o tag \o inner1 \o << d >> \o inner2 \o Fence \o after

\* the texts generateContent answers with: nothing, text that is no JSON,
\* a bare document, a document in a fenced block, a block left open
ReplyTexts ==
    { << >>, << "\n" >>, << "S", "o", "r", "r", "y" >> }
    \cup { b1 \o << d >> \o b2 : b1 \in Blanks, d \in Documents, b2 \in Blanks }
    \cup { Fenced(b1, tag, b2, d, b3, b4) :
             b1 \in Blanks, tag \in {<< >>, JsonTag, UpperTag, JsoncTag}, b2 \in Blanks,
             d \in Documents, b3 \in Blanks, b4 \in Blanks }
    \cup { Fence \o JsonTag \o << "\n", d >> : d \in Documents }

\* lines 242-246: what the response handling makes of response.text
ReplyOf(text) ==
    IF text = << >> THEN [kind |-> "empty"]
    ELSE IF Parses(cleanJson(text)) THEN [kind |-> "json", parsed |-> JsonParse(cleanJson(text))]
    ELSE [kind |-> "malformed"]

Replies == { ReplyOf(text) : text \in ReplyTexts }

\* parsed.k is truthy, for a field that holds a string when present
HasTruthy(o, k) == k \in DOMAIN o /\ o[k] # ""

\* parsed.trends && Array.isArray(parsed.trends): the field, when present in a
\* reply, holds an array, and every array is truthy
HasArray(o, k) == k \in DOMAIN o

\* parsed.k || dflt
FieldOr(o, k, dflt) == IF HasTruthy(o, k) THEN o[k] ELSE dflt

\* a variant of the normalisation that returns any trends array, empty or not
Normalize_AnyArray(s, parsed) ==
    IF s.call.mode = TREND_HUNTER
    THEN IF HasArray(parsed, "trends")
         THEN Return(s, parsed.trends)
         ELSE IF HasTruthy(parsed, "trend") \/ HasTruthy(parsed, "contentIdea")
                 \/ HasTruthy(parsed, "headline")
         THEN Return(s, << TrendItem(FieldOr(parsed, "headline", "Trend Detected"),
                                     FieldOr(parsed, "whyItsHot", "Currently trending in your niche"),
                                     FieldOr(parsed, "contentIdea", "Create content around this trend")) >>)
         ELSE Throw(s, InnerCatch(Err("Error", MsgNoValidTrends)))
    ELSE Return(s, parsed)

\* a variant of the normalisation that keeps the first trend only
Normalize_FirstOnly(s, parsed) ==
    IF s.call.mode = TREND_HUNTER
    THEN IF HasArray(parsed, "trends") /\ Len(parsed.trends) > 0
         THEN Return(s, << parsed.trends[1] >>)
         ELSE IF HasTruthy(parsed, "trend") \/ HasTruthy(parsed, "contentIdea")
                 \/ HasTruthy(parsed, "headline")
         THEN Return(s, << TrendItem(FieldOr(parsed, "headline", "Trend Detected"),
                                     FieldOr(parsed, "whyItsHot", "Currently trending in your niche"),
                                     FieldOr(parsed, "contentIdea", "Create content around this trend")) >>)
         ELSE Throw(s, InnerCatch(Err("Error", MsgNoValidTrends)))
    ELSE Return(s, parsed)

\* if (mode === AppMode.TREND_HUNTER) { ... } else { return parsed }
Normalize(s, parsed) ==
    IF s.call.mode = TREND_HUNTER
    THEN IF HasArray(parsed, "trends") /\ Len(parsed.trends) > 0
         THEN Return(s, parsed.trends)
         ELSE IF HasTruthy(parsed, "trend") \/ HasTruthy(parsed, "contentIdea")
                 \/ HasTruthy(parsed, "headline")
         THEN Return(s, << TrendItem(FieldOr(parsed, "headline", "Trend Detected"),
                                     FieldOr(parsed, "whyItsHot", "Currently trending in your niche"),
                                     FieldOr(parsed, "contentIdea", "Create content around this trend")) >>)
         ELSE Throw(s, InnerCatch(Err("Error", MsgNoValidTrends)))
    ELSE Return(s, parsed)

\* clearTimeout(timeoutId): a timer that has fired stays fired
ClearTimeout(t) == IF t = "armed" THEN "cleared" ELSE t

\* a variant of the response handling that answers an empty or unparsable
\* reply with a default object
AfterGenerate_Defaults(s, reply) ==
    LET t == [s EXCEPT !.timer = ClearTimeout(@)]
    IN  CASE reply.kind = "empty"     -> Normalize(t, AnalysisObject)
          [] reply.kind = "malformed" -> Normalize(t, AnalysisObject)
          [] OTHER                    -> Normalize(t, reply.parsed)

\* the generation call has answered: lines 240-264
AfterGenerate(s, reply) ==
    LET t == [s EXCEPT !.timer = ClearTimeout(@)]
    IN  CASE reply.kind = "empty"     -> Throw(t, InnerCatch(Err("Error", MsgNoResponse)))
          [] reply.kind = "malformed" -> Throw(t, InnerCatch(Err("SyntaxError", MsgSyntaxError)))
          [] OTHER                    -> Normalize(t, reply.parsed)

(***************************************************************************)
(* The App component: handleAnalyze.                                       *)
(***************************************************************************)
MsgUploadContent    == "Please upload content to analyze."
MsgEnterText        == "Please enter text to refine."
MsgUploadCompetitor == "Please upload competitor content to analyze."
MsgEnterNiche       == "Please enter a niche to hunt trends for."
MsgTotalSize        == "Total file size exceeds 100MB. Please upload smaller files."
MsgNoTrendsFound    == "No trends found for your niche. Try a different search term."
MsgUnexpected       == "An unexpected error occurred."

\* err.message || "An unexpected error occurred."
ErrorMessage(e) == IF e.message # Null /\ Truthy(e.message) THEN e.message ELSE MsgUnexpected

\* a variant of the continuation whose catch swallows the error
AfterAwait_Swallows(m, settled, ui) ==
    IF settled.kind = "value"
    THEN IF m = TREND_HUNTER
         THEN IF Len(settled.value) > 0
              THEN [ui EXCEPT !.trendResults = Items(settled.value)]
              ELSE [ui EXCEPT !.error = MsgNoTrendsFound]
         ELSE [ui EXCEPT !.result = settled.value]
    ELSE ui

\* handleAnalyze after await analyzeContent(...), lines 190-203: the new
\* result, trendResults and error, from their values ui.  m is the mode the
\* handler closed over, the mode of the call.
AfterAwait(m, settled, ui) ==
    IF settled.kind = "value"
    THEN IF m = TREND_HUNTER
         THEN IF Len(settled.value) > 0
              THEN [ui EXCEPT !.trendResults = Items(settled.value)]
              ELSE [ui EXCEPT !.error = MsgNoTrendsFound]
         ELSE [ui EXCEPT !.result = settled.value]
    ELSE [ui EXCEPT !.error = ErrorMessage(settled.error)]

Settled(s) == s.pc \in {"returned", "threw"}

\* handleAnalyze resumes with analyzeContent settled as s, from the values ui
\* of result, trendResults and error: try, catch and finally
HandleAnalyzeResume(s, ui) ==
    LET u == AfterAwait(s.call.mode, s.outcome, ui)
    IN  /\ result' = u.result
        /\ trendResults' = u.trendResults
        /\ error' = u.error
        /\ isAnalyzing' = FALSE
        /\ handler' = "none"
        /\ SetSvc(Idle)
        /\ UNCHANGED sideVars
        /\ UNCHANGED <<apiKey, mode, platform, files, config>>

\* analyzeContent moves to s.  When that settles its promise and
\* handleAnalyze awaits it, handleAnalyze resumes in the same turn: the
\* continuation is a microtask, which runs before any other event.
Deliver(s) ==
    IF handler = "awaiting" /\ Settled(s)
    THEN HandleAnalyzeResume(s, [result |-> result, trendResults |-> trendResults, error |-> error])
    ELSE SetSvc(s) /\ UNCHANGED uiVars

(***************************************************************************)
(* The actions of analyzeContent: each is the settling of the promise it   *)
(* awaits and the run of the code that follows, to the next await.         *)
(***************************************************************************)
\* await ai.files.upload(...) resolves: the first status query is issued
UploadResolves ==
    /\ pc = "upload"
    /\ Deliver([Svc EXCEPT !.pc = "get", !.net.get = @ + 1])

\* await ai.files.upload(...) or await ai.files.get(...) rejects: the catch of
\* uploadLargeFile replaces the error
UploadRejects ==
    /\ pc \in {"upload", "get", "poll"}
    /\ Deliver(Throw(Svc, Err("Error", MsgUploadFailed)))

\* let fileInfo = await ai.files.get(...) resolves (line 37)
GetResolves ==
    /\ pc = "get"
    /\ \E st \in FileStates :
         Deliver(AfterGet([Svc EXCEPT !.fileInfo = st]))

\* the 2 s wait is over and fileInfo = await ai.files.get(...) resolves
\* (lines 42-44)
PollResolves ==
    /\ pc = "poll"
    /\ \E st \in FileStates :
         Deliver(AfterGet([Svc EXCEPT !.fileInfo = st, !.attempts = @ + 1]))

\* reader.onloadend: fileToPart resolves
ReadResolves ==
    /\ pc = "read"
    /\ Deliver(PushPart(Svc, InlinePart(call.files[idx])))

\* reader.onerror: fileToPart rejects
ReadRejects ==
    /\ pc = "read"
    /\ Deliver(Throw(Svc, ReadError))

\* await ai.models.generateContent(...) resolves
GenerateResolves ==
    /\ pc = "generate"
    /\ \E reply \in Replies : Deliver(AfterGenerate(Svc, reply))

\* await ai.models.generateContent(...) rejects: clearTimeout is not reached
GenerateRejects ==
    /\ pc = "generate"
    /\ \E e \in TransportErrors : Deliver(Throw(Svc, InnerCatch(e)))

\* 60 s after it was armed the timer runs () => controller.abort()
TimeoutFires ==
    /\ timer = "armed"
    /\ timer' = "fired"
    /\ aborted' = TRUE
    /\ UNCHANGED <<pc, call, parts, idx, attempts, fileInfo, generateConfig, net, outcome>>
    /\ UNCHANGED uiVars

(***************************************************************************)
(* SpecService: analyzeContent called directly.                            *)
(***************************************************************************)
\* the dependency array of the loading effect
Deps ==
    [ isAnalyzing |-> isAnalyzing, enableLiveTrends |-> config.enableLiveTrends, mode |-> mode,
      result |-> result, trendResults |-> trendResults ]

\* the key gate after a stored key was accepted, and the loading view after
\* its effect ran on mount
InitSide ==
    /\ showGatekeeper = FALSE
    /\ tempKey = ""
    /\ storedKey = ValidKey
    /\ loadingProgress = 0
    /\ interval = FALSE
    /\ effectDeps = Deps

InitUI ==
    /\ apiKey = ValidKey
    /\ mode = GENERATION
    /\ platform = INSTAGRAM
    /\ files = << >>
    /\ config = InitialConfig
    /\ isAnalyzing = FALSE
    /\ result = Nil
    /\ trendResults = Nil
    /\ error = Null
    /\ handler = "none"
    /\ InitSide

InitSvc ==
    /\ pc = "idle"
    /\ call = Nil
    /\ parts = << >>
    /\ idx = 0
    /\ attempts = 0
    /\ fileInfo = Null
    /\ generateConfig = Nil
    /\ timer = "none"
    /\ aborted = FALSE
    /\ net = NoCalls
    /\ outcome = Nil

Init == InitUI /\ InitSvc

\* analyzeContent(files, mode, platform, config, apiKey) with any arguments
AnalyzeContent ==
    /\ pc = "idle"
    /\ \E fs \in SeqsUpTo(ServiceFiles, MaxFiles), m \in AppMode,
          cfg \in Configs, key \in {"", ValidKey} :
         SetSvc(Start(fs, m, platform, cfg, key))
    /\ UNCHANGED uiVars

NextService ==
    \/ AnalyzeContent
    \/ UploadResolves
    \/ UploadRejects
    \/ GetResolves
    \/ PollResolves
    \/ ReadResolves
    \/ ReadRejects
    \/ GenerateResolves
    \/ GenerateRejects
    \/ TimeoutFires

SpecService == Init /\ [][NextService]_vars

\* a pending call to the service or file read settles
ServiceAnswers ==
    \/ UploadResolves
    \/ UploadRejects
    \/ GetResolves
    \/ PollResolves
    \/ ReadResolves
    \/ ReadRejects
    \/ GenerateResolves
    \/ GenerateRejects

\* every pending call to the service and file read eventually settles, and an
\* armed timer eventually fires
SpecServiceFair ==
    SpecService /\ WF_vars(AnalyzeContent) /\ WF_vars(ServiceAnswers) /\ WF_vars(TimeoutFires)

(***************************************************************************)
(* Spec: the App.                                                          *)
(***************************************************************************)
\* a variant of the validation without the Refine check
ValidationError_NoRefine(m, fs, cfg) ==
    IF m = GENERATION /\ Len(fs) = 0 THEN MsgUploadContent
    ELSE IF m = COMPETITOR_SPY /\ Len(fs) = 0 THEN MsgUploadCompetitor
    ELSE IF m = TREND_HUNTER /\ ~Truthy(cfg.niche) THEN MsgEnterNiche
    ELSE Null

\* handleAnalyze, // Validation: the message of the first check that fails
ValidationError(m, fs, cfg) ==
    IF m = GENERATION /\ Len(fs) = 0 THEN MsgUploadContent
    ELSE IF m = REFINE /\ ~Truthy(cfg.originalText) THEN MsgEnterText
    ELSE IF m = COMPETITOR_SPY /\ Len(fs) = 0 THEN MsgUploadCompetitor
    ELSE IF m = TREND_HUNTER /\ ~Truthy(cfg.niche) THEN MsgEnterNiche
    ELSE Null

\* filesToAnalyze.reduce((sum, f) => sum + f.size, 0)
RECURSIVE TotalSize(_)
TotalSize(fs) == IF fs = << >> THEN 0 ELSE Head(fs).size + TotalSize(Tail(fs))

\* a variant of the total-size test that rejects the limit itself
ExceedsTotal_AtOrAbove(fs) == TotalSize(fs) >= MAX_TOTAL_SIZE

\* if (totalSize > MAX_TOTAL_SIZE)
ExceedsTotal(fs) == TotalSize(fs) > MAX_TOTAL_SIZE

\* a variant of the action button that is never disabled
Disabled_Never == FALSE

\* disabled={isAnalyzing}, of the action button
Disabled == isAnalyzing

\* onClick={handleAnalyze} disabled={isAnalyzing}: handleAnalyze to its first
\* await, analyzeContent's run to its own first await included
HandleAnalyze ==
    /\ ~Disabled
    /\ IF ValidationError(mode, files, config) # Null
       THEN /\ error' = ValidationError(mode, files, config)
            /\ UNCHANGED sideVars
            /\ UNCHANGED <<apiKey, mode, platform, files, config, isAnalyzing, result,
                           trendResults, handler>>
            /\ UNCHANGED svcVars
       ELSE IF ExceedsTotal(files)
       THEN /\ error' = MsgTotalSize
            /\ result' = Nil
            /\ trendResults' = Nil
            /\ isAnalyzing' = FALSE
            /\ UNCHANGED sideVars
            /\ UNCHANGED <<apiKey, mode, platform, files, config, handler>>
            /\ UNCHANGED svcVars
       ELSE LET s == Start(files, mode, platform, config, apiKey)
            IN  IF Settled(s)
                THEN HandleAnalyzeResume(s, [result |-> Nil, trendResults |-> Nil, error |-> Null])
                ELSE /\ error' = Null
                     /\ result' = Nil
                     /\ trendResults' = Nil
                     /\ isAnalyzing' = TRUE
                     /\ handler' = "awaiting"
                     /\ SetSvc(s)
                     /\ UNCHANGED sideVars
                     /\ UNCHANGED <<apiKey, mode, platform, files, config>>

\* ModeButton onClick
ModeButton ==
    \E m \in AppMode :
        /\ mode' = m
        /\ result' = Nil
        /\ trendResults' = Nil
        /\ files' = IF m # TREND_HUNTER THEN << >> ELSE files
        /\ UNCHANGED sideVars
        /\ UNCHANGED <<apiKey, platform, config, isAnalyzing, error, handler>>
        /\ UNCHANGED svcVars

\* file.size > MAX_FILE_SIZE_BYTES, with MAX_FILE_SIZE_BYTES = MAX_FILE_SIZE_MB * 1024 * 1024
ExceedsFileLimit(f) ==
    \/ f.size \div MiB > MAX_FILE_SIZE_MB
    \/ f.size \div MiB = MAX_FILE_SIZE_MB /\ f.size % MiB > 0

\* <FileUpload multiple={...}>
Multiple(m) == m = COMPETITOR_SPY

\* FileUpload.handleFileChange with one file picked
HandleFileChange ==
    /\ mode # TREND_HUNTER
    /\ \E f \in Catalogue :
         LET newFiles == IF ExceedsFileLimit(f) THEN << >> ELSE <<f>>
         IN  /\ files' = IF Multiple(mode) THEN files \o newFiles ELSE newFiles
             /\ Len(files') <= MaxFiles
    /\ UNCHANGED sideVars
    /\ UNCHANGED <<apiKey, mode, platform, config, isAnalyzing, result, trendResults, error, handler>>
    /\ UNCHANGED svcVars

\* FileUpload.removeFile(index)
RemoveFile ==
    /\ mode # TREND_HUNTER
    /\ \E i \in 1..Len(files) :
         files' = SubSeq(files, 1, i - 1) \o SubSeq(files, i + 1, Len(files))
    /\ UNCHANGED sideVars
    /\ UNCHANGED <<apiKey, mode, platform, config, isAnalyzing, result, trendResults, error, handler>>
    /\ UNCHANGED svcVars

\* the Original Draft textarea (Refine), the niche input (Trend Hunter) and
\* the Live Trend Mode checkbox (every mode but Trend Hunter)
SetConfig ==
    /\ \/ /\ mode = REFINE
          /\ \E t \in Texts("my draft") : config' = [config EXCEPT !.originalText = t]
       \/ /\ mode = TREND_HUNTER
          /\ \E n \in Texts("Vegan Cooking") : config' = [config EXCEPT !.niche = n]
       \/ /\ mode # TREND_HUNTER
          /\ \E b \in BOOLEAN : config' = [config EXCEPT !.enableLiveTrends = b]
    /\ UNCHANGED sideVars
    /\ UNCHANGED <<apiKey, mode, platform, files, isAnalyzing, result, trendResults, error, handler>>
    /\ UNCHANGED svcVars

\* the output column shows the trend grid: isAnalyzing ? ... : result ? ... :
\* trendResults ? ...
ShowsTrends == ~isAnalyzing /\ result = Nil /\ trendResults # Nil

\* handleUseTrend(trend), from the button of a trend in the grid
HandleUseTrend ==
    /\ ShowsTrends
    /\ \E i \in 1..Len(trendResults.items) :
         config' = [config EXCEPT !.style = "Urgent & Hype",
                                  !.goal = "Viral Growth",
                                  !.keywords = trendResults.items[i].headline]
    /\ mode' = GENERATION
    /\ UNCHANGED sideVars
    /\ UNCHANGED <<apiKey, platform, files, isAnalyzing, result, trendResults, error, handler>>
    /\ UNCHANGED svcVars

Next ==
    \/ HandleAnalyze
    \/ ModeButton
    \/ HandleFileChange
    \/ RemoveFile
    \/ SetConfig
    \/ UploadResolves
    \/ UploadRejects
    \/ GetResolves
    \/ PollResolves
    \/ ReadResolves
    \/ ReadRejects
    \/ GenerateResolves
    \/ GenerateRejects
    \/ TimeoutFires

Spec == Init /\ [][Next]_vars

\* Spec, and the user activates a trend of the grid
NextTrend ==
    \/ HandleAnalyze
    \/ ModeButton
    \/ HandleUseTrend
    \/ HandleFileChange
    \/ RemoveFile
    \/ SetConfig
    \/ UploadResolves
    \/ UploadRejects
    \/ GetResolves
    \/ PollResolves
    \/ ReadResolves
    \/ ReadRejects
    \/ GenerateResolves
    \/ GenerateRejects
    \/ TimeoutFires

SpecTrend == Init /\ [][NextTrend]_vars

\* a pending call of the file API or file read settles
EncodingAnswers ==
    \/ UploadResolves
    \/ UploadRejects
    \/ GetResolves
    \/ PollResolves
    \/ ReadResolves
    \/ ReadRejects

\* Spec, where the runtime runs every timer that is due and every file read
\* and call of the file API eventually settles; nothing is assumed of the
\* generation call
SpecFair == Spec /\ WF_vars(TimeoutFires) /\ WF_vars(EncodingAnswers)

(***************************************************************************)
(* SpecGate: the key gate.  The App is constructed, its mount effect looks *)
(* for a key, the user types and saves a key, changes it, reloads.         *)
(***************************************************************************)
\* the texts typed into the gate
KeyTexts == {"", "A", "AIz", "AIzaKey", "AIzaOther", "aizakey", "sk-123", " AIzaKey"}

\* what localStorage holds for 'gemini_api_key' when the page is opened:
\* nothing, a key this App stored, or a value put there by other means
StoredKeys == {Null, "AIzaKey", "sk-123"}

\* process.env.API_KEY of the build: undefined, empty, a placeholder that was
\* never substituted, or a key
EnvKeys == {Null, "", "VITE_GEMINI_API_KEY", "AIzaEnv", "env-key"}

\* a variant of the format test that accepts every text
StartsWithAIza_Any(k) == TRUE

\* k.startsWith('AIza'), for the texts above
StartsWithAIza(k) == k \in {"AIzaKey", "AIzaOther", "AIzaEnv"}

\* k.includes("VITE_"), for the texts above
IncludesVite(k) == k = "VITE_GEMINI_API_KEY"

\* the state of the main screen, which the gate leaves alone
mainVars ==
    <<mode, platform, files, config, isAnalyzing, result, trendResults, error, handler,
      loadingProgress, interval>>

\* the effects have run after the first render
Mounted == effectDeps # Nil

\* const [...] = useState(...): the App as constructed, before its effects
InitGate ==
    /\ apiKey = ""
    /\ showGatekeeper = TRUE
    /\ tempKey = ""
    /\ storedKey \in StoredKeys
    /\ mode = GENERATION
    /\ platform = INSTAGRAM
    /\ files = << >>
    /\ config = InitialConfig
    /\ isAnalyzing = FALSE
    /\ result = Nil
    /\ trendResults = Nil
    /\ error = Null
    /\ handler = "none"
    /\ loadingProgress = 0
    /\ interval = FALSE
    /\ effectDeps = Nil
    /\ InitSvc

\* the effects of the first render: // Check for existing API Key on mount,
\* then the loading effect, which has nothing to do
Mount ==
    /\ ~Mounted
    /\ \E envKey \in EnvKeys :
         IF envKey # Null /\ envKey # "" /\ ~IncludesVite(envKey)
         THEN apiKey' = envKey /\ showGatekeeper' = FALSE
         ELSE IF storedKey # Null /\ StartsWithAIza(storedKey)
         THEN apiKey' = storedKey /\ showGatekeeper' = FALSE
         ELSE UNCHANGED <<apiKey, showGatekeeper>>
    /\ effectDeps' = Deps
    /\ UNCHANGED <<tempKey, storedKey>>
    /\ UNCHANGED mainVars
    /\ UNCHANGED svcVars

\* onChange={(e) => setTempKey(e.target.value)}
SetTempKey ==
    /\ Mounted
    /\ showGatekeeper
    /\ \E k \in KeyTexts : tempKey' = k
    /\ UNCHANGED <<apiKey, showGatekeeper, storedKey, effectDeps>>
    /\ UNCHANGED mainVars
    /\ UNCHANGED svcVars

\* handleSaveKey, from the Initialize System button
HandleSaveKey ==
    /\ Mounted
    /\ showGatekeeper
    /\ IF ~StartsWithAIza(tempKey)
       THEN UNCHANGED <<apiKey, showGatekeeper, storedKey>>
       ELSE /\ storedKey' = tempKey
            /\ apiKey' = tempKey
            /\ showGatekeeper' = FALSE
    /\ UNCHANGED <<tempKey, effectDeps>>
    /\ UNCHANGED mainVars
    /\ UNCHANGED svcVars

\* the Change Key button of the header
ChangeKey ==
    /\ Mounted
    /\ ~showGatekeeper
    /\ storedKey' = Null
    /\ showGatekeeper' = TRUE
    /\ apiKey' = ""
    /\ tempKey' = ""
    /\ UNCHANGED effectDeps
    /\ UNCHANGED mainVars
    /\ UNCHANGED svcVars

\* the page is reloaded: the App is constructed again, localStorage stays
Reload ==
    /\ Mounted
    /\ apiKey' = ""
    /\ showGatekeeper' = TRUE
    /\ tempKey' = ""
    /\ effectDeps' = Nil
    /\ mode' = GENERATION
    /\ platform' = INSTAGRAM
    /\ files' = << >>
    /\ config' = InitialConfig
    /\ isAnalyzing' = FALSE
    /\ result' = Nil
    /\ trendResults' = Nil
    /\ error' = Null
    /\ handler' = "none"
    /\ loadingProgress' = 0
    /\ interval' = FALSE
    /\ UNCHANGED storedKey
    /\ UNCHANGED svcVars

\* a mode button of the main screen, which is rendered once the gate is open
MainModeButton ==
    /\ Mounted
    /\ ~showGatekeeper
    /\ ModeButton

\* onClick={() => setPlatform(p.id)}; the selector is hidden in Trend Hunter
\* and Spy
PlatformButton ==
    /\ Mounted
    /\ ~showGatekeeper
    /\ mode \notin {COMPETITOR_SPY, TREND_HUNTER}
    /\ \E p \in Platform : platform' = p
    /\ UNCHANGED sideVars
    /\ UNCHANGED <<apiKey, mode, files, config, isAnalyzing, result, trendResults, error, handler>>
    /\ UNCHANGED svcVars

NextGate ==
    \/ Mount
    \/ SetTempKey
    \/ HandleSaveKey
    \/ ChangeKey
    \/ Reload
    \/ MainModeButton
    \/ PlatformButton

SpecGate == InitGate /\ [][NextGate]_vars

(***************************************************************************)
(* SpecProgress: the loading view.  React renders the state a handler      *)
(* leaves, then runs the effects whose dependencies changed; the loading   *)
(* effect and the ticks of its interval are steps of their own.  Requests  *)
(* are the ones that need no file (Refine, Trend Hunter).                  *)
(***************************************************************************)
\* const estimatedDuration = 15000
estimatedDuration == 15000

\* Date.now() - startTime at a tick, in ms
Elapsed == {3000, 9000, 15000, 60000}

\* the tick's progress: (elapsed / estimatedDuration) * 100, capped at 90
TickProgress(elapsed) ==
    LET progress == (elapsed * 100) \div estimatedDuration
    IN  IF progress > 90 THEN 90 ELSE progress

\* a render has changed a dependency of the loading effect and the effect
\* has not run for it yet
EffectPending == effectDeps # Deps

\* useEffect(() => {...}, [isAnalyzing, config.enableLiveTrends, mode, result,
\* trendResults]): the cleanup of the previous run, then the body
LoadingEffect ==
    /\ EffectPending
    /\ IF isAnalyzing
       THEN /\ loadingProgress' = 0
            /\ interval' = TRUE
       ELSE /\ loadingProgress' = IF result # Nil \/ trendResults # Nil
                                  THEN 100 ELSE loadingProgress
            /\ interval' = FALSE
    /\ effectDeps' = Deps
    /\ UNCHANGED <<showGatekeeper, tempKey, storedKey>>
    /\ UNCHANGED <<apiKey, mode, platform, files, config, isAnalyzing, result, trendResults,
                   error, handler>>
    /\ UNCHANGED svcVars

\* the setInterval callback; the clock does not run backwards
Tick ==
    /\ interval
    /\ \E elapsed \in Elapsed :
         /\ TickProgress(elapsed) >= loadingProgress
         /\ loadingProgress' = TickProgress(elapsed)
    /\ UNCHANGED <<showGatekeeper, tempKey, storedKey, interval, effectDeps>>
    /\ UNCHANGED <<apiKey, mode, platform, files, config, isAnalyzing, result, trendResults,
                   error, handler>>
    /\ UNCHANGED svcVars

\* the next event is handled once the pending effect has run
NextProgress ==
    \/ LoadingEffect
    \/ Tick
    \/ (~EffectPending /\ HandleAnalyze)
    \/ (~EffectPending /\ ModeButton)
    \/ (~EffectPending /\ SetConfig)
    \/ (~EffectPending /\ GenerateResolves)
    \/ (~EffectPending /\ GenerateRejects)
    \/ (~EffectPending /\ TimeoutFires)

SpecProgress == Init /\ [][NextProgress]_vars

(***************************************************************************)
(* SpecPrompt: the prompt analyzeContent composes, for every mode,         *)
(* platform and config.  The arguments of the call are drawn by Init.      *)
(***************************************************************************)
\* every optional field of the config empty or filled, the toggle off or on
PromptConfigs ==
    { [InitialConfig EXCEPT !.originalText = o, !.niche = n, !.enableLiveTrends = l,
                            !.brandGuidelines = b, !.geography = g, !.targetAudience = a,
                            !.targetLanguage = t, !.demographics = d] :
        o \in Texts("my draft"), n \in Texts("Vegan Cooking"), l \in BOOLEAN,
        b \in Texts("Never say cheap"), g \in Texts("Brazil"), a \in Texts("Gen Z"),
        t \in Texts("Portuguese"), d \in Texts("18-24") }

InitPrompt ==
    /\ apiKey = ValidKey
    /\ mode \in AppMode
    /\ platform \in Platform
    /\ files \in SeqsUpTo({ File("clip.mp4", FILE_SIZE_THRESHOLD - 1) }, MaxFiles)
    /\ config \in PromptConfigs
    /\ isAnalyzing = FALSE
    /\ result = Nil
    /\ trendResults = Nil
    /\ error = Null
    /\ handler = "none"
    /\ InitSide
    /\ InitSvc

\* analyzeContent(files, mode, platform, config, apiKey), to its first await
ComposePrompt ==
    /\ pc = "idle"
    /\ SetSvc(Start(files, mode, platform, config, apiKey))
    /\ UNCHANGED uiVars

NextPrompt == ComposePrompt

SpecPrompt == InitPrompt /\ [][NextPrompt]_vars

(***************************************************************************)
(* The claims.                                                             *)
(***************************************************************************)
\* the request has been built and the generation call issued
RequestIssued == net.generate > 0

\* uploadLargeFile is running: suspended at one of its awaits
Uploading == pc \in {"upload", "get", "poll"}

\* the part at position i of parts encodes file f
IsInline(part) == DOMAIN part = {"inlineData"}
IsFileData(part) == DOMAIN part = {"fileData"}
Encodes(part, f) ==
    \/ IsInline(part) /\ part.inlineData.data = f.name
    \/ IsFileData(part) /\ part.fileData.fileUri = f.name

\* the required input of mode m is missing
MissingRequiredInput(m, fs, cfg) ==
    \/ m = GENERATION /\ Len(fs) = 0
    \/ m = REFINE /\ cfg.originalText = ""
    \/ m = COMPETITOR_SPY /\ Len(fs) = 0
    \/ m = TREND_HUNTER /\ cfg.niche = ""

\* C1: every request built by analyzeContent carries exactly one of the two
\* response contracts: the search tool exactly when the mode is TrendHunter or
\* enableLiveTrends is true, and then no responseSchema; otherwise
\* responseSchema with responseMimeType, and no tools.
C1_ExactlyOneResponseContract ==
    RequestIssued =>
        LET keys   == DOMAIN generateConfig
            search == call.mode = TREND_HUNTER \/ call.enableLiveTrends
        IN  /\ ("tools" \in keys) <=> search
            /\ ("responseSchema" \in keys) <=> ~search
            /\ ("responseMimeType" \in keys) <=> ~search
            /\ search => generateConfig.tools = <<"googleSearch">>

\* C1 witness: a request of a standard mode with live trends on went out with
\* the search tool
C1_Witness ==
    /\ RequestIssued
    /\ call.mode = GENERATION
    /\ call.enableLiveTrends
    /\ "tools" \in DOMAIN generateConfig

\* C2: a call of analyzeContent whose mode lacks its required input fails
\* before its first await, with no call issued to the AI service or the
\* FileReader.
C2_MissingInputIssuesNoCall ==
    [][ \A fs \in SeqsUpTo(ServiceFiles, MaxFiles), m \in AppMode, cfg \in Configs :
          ( /\ pc = "idle"
            /\ MissingRequiredInput(m, fs, cfg)
            /\ SetSvc(Start(fs, m, platform, cfg, ValidKey)) )
          => (pc' = "threw" /\ net' = NoCalls) ]_vars

\* the validation message of mode m
ValidationMessage(m) ==
    CASE m = GENERATION     -> MsgUploadContent
      [] m = REFINE         -> MsgEnterText
      [] m = COMPETITOR_SPY -> MsgUploadCompetitor
      [] m = TREND_HUNTER   -> MsgEnterNiche

\* C3: a click on the action button with the mode's required input missing
\* sets the mode's validation message at once, leaves isAnalyzing false and
\* calls nothing: analyzeContent is not started and no call goes out.
C3_ValidationFailsFast ==
    [][ (HandleAnalyze /\ MissingRequiredInput(mode, files, config))
        => /\ error' = ValidationMessage(mode)
           /\ isAnalyzing' = FALSE
           /\ handler' = "none"
           /\ pc' = "idle"
           /\ net' = NoCalls
           /\ UNCHANGED svcVars ]_vars

\* C3 witness: Refine was clicked with no draft and the message is showing
C3_Witness ==
    /\ mode = REFINE
    /\ config.originalText = ""
    /\ error = MsgEnterText
    /\ ~isAnalyzing
    /\ pc = "idle"

\* the click ended with the total-size error, before any encoding or call
RejectedForSize ==
    /\ error' = MsgTotalSize
    /\ isAnalyzing' = FALSE
    /\ handler' = "none"
    /\ pc' = "idle"
    /\ net' = NoCalls
    /\ parts' = << >>

\* the click went on to analyzeContent with the selected files
Proceeded ==
    /\ isAnalyzing' = TRUE
    /\ handler' = "awaiting"
    /\ pc' # "idle"
    /\ call'.files = files
    /\ error' = Null

\* C4, as stated: in any mode, a click with files of more than 104857600
\* bytes in total ends with the total-size error, and with exactly that total
\* it proceeds.
C4_AsStated ==
    [][ HandleAnalyze =>
          /\ TotalSize(files) > 104857600 => RejectedForSize
          /\ (TotalSize(files) = 104857600 /\ ~MissingRequiredInput(mode, files, config))
                => Proceeded ]_vars

\* C4, amended: a click that has the mode's required input ends with the
\* total-size error when the files total more than 104857600 bytes, and
\* proceeds to analyzeContent when they total at most that; a click that
\* lacks the required input gets the validation message whatever the total.
C4_TotalSizeCheck ==
    [][ HandleAnalyze =>
          IF MissingRequiredInput(mode, files, config)
          THEN error' = ValidationMessage(mode) /\ pc' = "idle"
          ELSE IF TotalSize(files) > 104857600
          THEN RejectedForSize
          ELSE Proceeded ]_vars

\* C4 witness: a list of 100 MiB + 1 byte was rejected
C4_Witness ==
    /\ TotalSize(files) = 104857600 + 1
    /\ error = MsgTotalSize
    /\ ~isAnalyzing
    /\ pc = "idle"

\* C5: once the 60 s timer has fired, analyzeContent is no longer waiting for
\* the generation call.
C5_TimeoutEndsTheWait == timer = "fired" => pc # "generate"

\* C6: when uploadLargeFile stops polling and the last status it saw is
\* PROCESSING, analyzeContent has failed; no part is pushed for the file.
C6_StillProcessingIsAnError ==
    [][ (pc \in {"get", "poll"} /\ pc' \notin {"get", "poll"} /\ fileInfo' = "PROCESSING")
        => pc' = "threw" ]_vars

\* the large files among the first i of the call
LargeUpTo(i) == { j \in 1..i : call.files[j].size > 20971520 }

\* C7: uploadLargeFile submits each large file once, queries its status at
\* most 31 times, leaves the polling loop with the first status that is not
\* PROCESSING, and ends, for every sequence of statuses, when every call
\* returns.  The uploads of one request run one after the other, so one that
\* never ended would leave analyzeContent inside uploadLargeFile for ever.
C7_PollingBoundedAndEnds ==
    /\ [](Uploading => net.upload = Cardinality(LargeUpTo(idx)))
    /\ [](net.get <= 31)
    /\ [][ (pc \in {"get", "poll"} /\ fileInfo' \in {"ACTIVE", "FAILED"})
           => pc' \notin {"get", "poll"} ]_vars
    /\ Uploading ~> ~Uploading

\* C7 witness: the 31st status query of a file is pending
C7_Witness == pc = "poll" /\ net.get = 31 /\ attempts = 29 /\ fileInfo = "PROCESSING"

\* C8: parts is the prompt text followed by one part per file, in input
\* order; in TrendHunter mode it is the prompt text alone and no file is read
\* or uploaded.
C8_PartsArePromptThenFilesInOrder ==
    pc # "idle" /\ parts # << >> =>
        /\ DOMAIN parts[1] = {"text"}
        /\ Len(parts) <= 1 + Len(call.files)
        /\ \A i \in 2..Len(parts) : Encodes(parts[i], call.files[i - 1])
        /\ call.mode = TREND_HUNTER =>
               Len(parts) = 1 /\ net.read = 0 /\ net.upload = 0 /\ net.get = 0
        /\ (RequestIssued /\ call.mode # TREND_HUNTER) => Len(parts) = 1 + Len(call.files)

\* C8 witness: a request with two different files, one inline and one
\* uploaded, has gone out
C8_Witness ==
    /\ RequestIssued
    /\ Len(call.files) = 2
    /\ Len(parts) = 3
    /\ IsFileData(parts[2])
    /\ IsInline(parts[3])

\* C9: a file of at least 20971520 bytes is encoded through the upload, a
\* smaller one inline.
C9_AtOrAboveCutoffUploads ==
    \A i \in 2..Len(parts) :
        /\ call.files[i - 1].size >= 20971520 => IsFileData(parts[i])
        /\ call.files[i - 1].size < 20971520 => IsInline(parts[i])

\* C10: every file part has exactly one variant: inlineData when the file has
\* at most 20971520 bytes, fileData when it has more.
C10_ExactlyOneVariantBySize ==
    \A i \in 2..Len(parts) :
        /\ IsInline(parts[i]) \/ IsFileData(parts[i])
        /\ IsInline(parts[i]) <=> call.files[i - 1].size <= 20971520
        /\ IsFileData(parts[i]) <=> call.files[i - 1].size > 20971520

\* C10 witness: a file of exactly 20 MiB went inline and one of 20 MiB + 1
\* went through the upload
C10_Witness ==
    /\ Len(parts) = 3
    /\ call.files[1].size = 20971520 /\ IsInline(parts[2])
    /\ call.files[2].size = 20971521 /\ IsFileData(parts[3])

\* analyzeContent is encoding a file: suspended in uploadLargeFile or fileToPart
Encoding == pc \in {"upload", "get", "poll", "read"}

\* the encoding of the file at idx has ended in this step without its part
EncodingFailed ==
    /\ Encoding
    /\ parts' = parts
    /\ ~(pc' \in {"get", "poll"} /\ idx' = idx)

\* C11: when the encoding of a file fails (a call of the upload rejects, the
\* status is FAILED, the read errors), analyzeContent fails at once with an
\* error and no value; no further file is read or uploaded, generateContent
\* is not called, and nothing more happens to the request afterwards.
C11_EncodingFailureAbortsRequest ==
    /\ [][ (EncodingFailed \/ (pc \in {"get", "poll"} /\ fileInfo' = "FAILED"))
           => /\ pc' = "threw"
              /\ outcome'.kind = "error"
              /\ parts' = parts
              /\ net' = net
              /\ net'.generate = 0 ]_vars
    /\ [][ (pc = "threw" /\ net.generate = 0) => (pc' = "threw" /\ net' = net /\ parts' = parts) ]_vars

\* C11 witness: the first of two files failed and the second was never touched
C11_Witness ==
    /\ pc = "threw"
    /\ Len(call.files) = 2
    /\ idx = 1
    /\ Len(parts) = 1
    /\ net.read + net.upload = 1
    /\ net.generate = 0

\* the three messages a caller of analyzeContent can see
UserFacingMessages == {MsgTooLarge, MsgTimedOut, MsgConnectionFailed}

\* the errors thrown inside analyzeContent, before its final catch
UnderlyingErrors ==
    TransportErrors
    \cup { ReadError, Err("AbortError", MsgAbortTimedOut), Err("SyntaxError", MsgSyntaxError) }
    \cup { Err("Error", m) : m \in {MsgApiKeyMissing, MsgNicheRequired, MsgUploadFailed,
                                    MsgNoResponse, MsgNoValidTrends, MsgAbortTimedOut} }

\* the message the spec assigns to an underlying message
Category(msg) ==
    IF msg = Null THEN MsgConnectionFailed
    ELSE IF Needles(msg) \cap {"413", "too large"} # {} THEN MsgTooLarge
    ELSE IF Needles(msg) \cap {"timeout", "timed out"} # {} THEN MsgTimedOut
    ELSE MsgConnectionFailed

\* C12: every failure of analyzeContent carries one of the three fixed
\* messages: the too-large one when the underlying message contains "413" or
\* "too large", the timed-out one when it contains "timeout" or "timed out",
\* the connection-failed one otherwise; the underlying message is never
\* passed on.
C12_ThreeUserFacingMessages ==
    /\ pc = "threw" =>
          /\ outcome.kind = "error"
          /\ outcome.error.name = "Error"
          /\ outcome.error.message \in UserFacingMessages
    /\ \A e \in UnderlyingErrors :
          Throw(Svc, e).outcome.error.message = Category(e.message)

\* C12 witness: a request has failed with the too-large message
C12_Witness ==
    /\ pc = "threw"
    /\ net.generate = 1
    /\ outcome.error.message = MsgTooLarge

\* what the caller gets when the generation call itself fails
TransportOutcomes == { Throw(Svc, InnerCatch(e)).outcome : e \in TransportErrors }

\* the reply is one the response handling rejects: text that does not parse,
\* or, for Trend Hunter, an object without trends
RejectedReply(reply) ==
    \/ reply.kind = "malformed"
    \/ reply.kind = "json" /\ call.mode = TREND_HUNTER

\* C13: a reply that does not parse, and a Trend Hunter reply without
\* trends, fail with an outcome that no failure of the generation call
\* itself produces.
C13_ResponseErrorsAreDistinct ==
    [][ \A reply \in Replies :
          ( /\ pc = "generate"
            /\ RejectedReply(reply)
            /\ SetSvc(AfterGenerate(Svc, reply))
            /\ pc' = "threw" )
          => outcome' \notin TransportOutcomes ]_vars

\* C14: when the upload or the polling of a large file fails, the error the
\* caller of analyzeContent gets is not the generic connection-failed one
\* that other errors are reported with.
C14_UploadFailureIsDistinct ==
    [][ (Uploading /\ pc' = "threw")
        => /\ outcome'.kind = "error"
           /\ outcome'.error.message # MsgConnectionFailed ]_vars

\* the reply object o has a non-empty text in field k
Present(o, k) == k \in DOMAIN o /\ o[k] # ""

\* the reply object o has a non-empty trends array
PresentTrends(o) == "trends" \in DOMAIN o /\ o.trends # << >>

\* C15: in Trend Hunter mode a reply with a non-empty trends array is
\* returned as that array, item for item; a reply without one but with a
\* top-level headline or contentIdea is returned as one item that carries
\* the top-level headline, whyItsHot and contentIdea that are present.
C15_TrendsReturnedOrSynthesized ==
    [][ \A reply \in Replies :
          ( /\ pc = "generate"
            /\ call.mode = TREND_HUNTER
            /\ reply.kind = "json"
            /\ SetSvc(AfterGenerate(Svc, reply)) )
          => LET o == reply.parsed
             IN  IF PresentTrends(o)
                 THEN /\ pc' = "returned"
                      /\ outcome'.value = o.trends
                 ELSE (Present(o, "headline") \/ Present(o, "contentIdea"))
                      => /\ pc' = "returned"
                         /\ Len(outcome'.value) = 1
                         /\ DOMAIN outcome'.value[1] = {"headline", "whyItsHot", "contentIdea"}
                         /\ \A k \in {"headline", "whyItsHot", "contentIdea"} :
                                Present(o, k) => outcome'.value[1][k] = o[k] ]_vars

\* C15 witness: a Trend Hunter request returned the two trends of the reply
C15_Witness ==
    /\ pc = "returned"
    /\ call.mode = TREND_HUNTER
    /\ outcome.value = << TrendItem("H1", "W1", "C1"), TrendItem("H2", "W2", "C2") >>

\* the reply object o has neither shape, or its trends array is empty
NoTrendsIn(o) ==
    \/ "trends" \in DOMAIN o /\ o.trends = << >>
    \/ "trends" \notin DOMAIN o /\ ~Present(o, "headline") /\ ~Present(o, "contentIdea")

\* C16: in Trend Hunter mode a reply with an empty trends array, or with
\* neither a trends array nor a top-level headline or contentIdea, makes the
\* request fail with the no-trends error.
C16_NoTrendsIsAnError ==
    [][ \A reply \in Replies :
          ( /\ pc = "generate"
            /\ call.mode = TREND_HUNTER
            /\ reply.kind = "json"
            /\ NoTrendsIn(reply.parsed)
            /\ SetSvc(AfterGenerate(Svc, reply)) )
          => /\ pc' = "threw"
             /\ outcome'.error.message = MsgNoValidTrends ]_vars

\* C17: a Trend Hunter request never yields an empty list: whatever the
\* reply, analyzeContent returns at least one item or fails, and the
\* trendResults held by the App is null or a non-empty list.
C17_NoEmptyTrendList ==
    /\ (pc = "generate" /\ call.mode = TREND_HUNTER) =>
          \A reply \in Replies :
             LET s == AfterGenerate(Svc, reply)
             IN  /\ s.pc \in {"returned", "threw"}
                 /\ s.pc = "returned" => Len(s.outcome.value) >= 1
    /\ trendResults # Nil => Len(trendResults.items) >= 1

\* C17 witness: the App shows the one trend made from a reply that had no
\* trends array
C17_Witness ==
    /\ mode = TREND_HUNTER
    /\ trendResults = Items(<< TrendItem("H", "Currently trending in your niche", "C") >>)
    /\ error = Null
    /\ ~isAnalyzing

\* C18: in Generate, Refine and Competitor Spy mode a reply that parses is
\* returned as parsed, with nothing added, removed or defaulted, and an
\* empty or unparsable reply makes the request fail.
C18_ParsedAsIsOrFail ==
    [][ \A reply \in Replies :
          ( /\ pc = "generate"
            /\ call.mode # TREND_HUNTER
            /\ SetSvc(AfterGenerate(Svc, reply)) )
          => IF reply.kind = "json"
             THEN /\ pc' = "returned"
                  /\ outcome'.kind = "value"
                  /\ DOMAIN outcome'.value = DOMAIN reply.parsed
                  /\ outcome'.value = reply.parsed
             ELSE /\ pc' = "threw"
                  /\ outcome'.kind = "error" ]_vars

\* C18 witness: a Refine request whose reply was the empty object returned
\* the empty object
C18_Witness ==
    /\ pc = "returned"
    /\ call.mode = REFINE
    /\ outcome.value = EmptyObject

\* the language tags a fenced block opens with: none, json, and two others
FenceTags == { << >>, JsonTag, UpperTag, JsoncTag }

\* C19: for a reply that is a document in a fenced block, with or without a
\* language tag, cleanJson gives the document, so that the request ends as
\* it does for the bare document; a reply that does not start with a fence
\* comes back trimmed and otherwise unchanged.
C19_CleanJsonStripsTheFence ==
    pc = "generate" =>
        /\ \A b1 \in Blanks, tag \in FenceTags, b2 \in Blanks, d \in Documents,
              b3 \in Blanks, b4 \in Blanks :
              LET text == Fenced(b1, tag, b2, d, b3, b4)
              IN  /\ Trim(cleanJson(text)) = << d >>
                  /\ ReplyOf(text) = ReplyOf(<< d >>)
                  /\ AfterGenerate(Svc, ReplyOf(text)).pc = AfterGenerate(Svc, ReplyOf(<< d >>)).pc
        /\ \A text \in ReplyTexts :
              ~StartsWith(Trim(text), Fence) => cleanJson(text) = Trim(text)

\* a call of analyzeContent is in flight: started and not yet settled
InFlight == pc # "idle"

\* C20: at most one call of analyzeContent is in flight: while one is, the
\* action button is disabled, and no run of handleAnalyze starts in a state
\* where a call is in flight, whatever the user does in between.
C20_OneCallInFlight ==
    /\ [](InFlight => (isAnalyzing /\ handler = "awaiting"))
    /\ [][ HandleAnalyze => ~InFlight ]_vars
    /\ [][ (InFlight /\ InFlight') => call' = call ]_vars

\* C20 witness: a call is in flight and the user has changed the mode and the
\* files since the click
C20_Witness ==
    /\ InFlight
    /\ isAnalyzing
    /\ mode # call.mode
    /\ files # call.files

\* a call goes out in this step: to the upload, the status query, the
\* FileReader or the generation
Issues == \E k \in {"upload", "get", "read", "generate"} : net'[k] > net[k]

\* the large files of a list
LargeAmong(fs) == { j \in 1..Len(fs) : fs[j].size > 20971520 }

\* C21: in one invocation each large file is submitted once and
\* generateContent is called at most once; a call goes out only in a click on
\* the action button or as the next call of an invocation that has not
\* failed, so after a failure nothing goes out until the user clicks again.
C21_NoAutomaticRetry ==
    /\ [](net.generate <= 1)
    /\ [](pc # "idle" => net.upload <= Cardinality(LargeAmong(call.files)))
    /\ [][ (Issues /\ ~HandleAnalyze)
           => /\ isAnalyzing
              /\ pc \in {"upload", "get", "poll", "read"}
              /\ pc' # "threw"
              /\ call' = call ]_vars
    /\ [][ (~isAnalyzing /\ Issues) => HandleAnalyze ]_vars

\* C21 witness: a request with a large file has failed, its error is showing
\* and nothing is pending
C21_Witness ==
    /\ error = MsgUploadFailed \/ error = MsgConnectionFailed
    /\ \E i \in 1..Len(files) : files[i].size > 20971520
    /\ ~isAnalyzing
    /\ pc = "idle"
    /\ net = NoCalls
    /\ timer = "none"

\* analyzeContent has composed its prompt
Composed == pc # "idle" /\ parts # << >>

\* the piece x occurs in the text t
Occurs(x, t) == \E i \in 1..Len(t) : t[i] = x

\* the live-search block is wanted: the toggle is on or the mode is Trend Hunter
WantsLiveSearch == config.enableLiveTrends \/ mode = TREND_HUNTER

\* C22: the composed prompt begins with the live-search instruction block
\* exactly when enableLiveTrends is true or the mode is Trend Hunter, and the
\* Twitter search step is in that block exactly when the platform is
\* Twitter (X).
C22_LiveSearchBlockPrefixed ==
    Composed =>
        /\ WantsLiveSearch <=>
              \E p \in Platform : StartsWith(parts[1].text, TrendHunterInstruction(CurrentDate, p))
        /\ WantsLiveSearch =>
              /\ StartsWith(parts[1].text, TrendHunterInstruction(CurrentDate, platform))
              /\ Occurs(Step1b, parts[1].text) <=> platform = TWITTER
        /\ ~WantsLiveSearch => ~Occurs(Step1b, parts[1].text)

\* the text b stands in the text t from position i on
OccursAt(b, t, i) == i + Len(b) - 1 <= Len(t) /\ SubSeq(t, i, i + Len(b) - 1) = b

\* the composed prompt has the live-search block at its start
HasLiveSearchBlock == StartsWith(parts[1].text, TrendHunterInstruction(CurrentDate, platform))

\* C23: when config.brandGuidelines is non-empty the composed prompt, in
\* every mode, contains the brand-guard block with the guideline text in it,
\* after the live-search block when there is one and before the block of the
\* mode; when brandGuidelines is empty the prompt has no brand-guard block.
C23_BrandGuardBlockPlaced ==
    Composed =>
        LET text  == parts[1].text
            guard == BrandGuardInstruction(config.brandGuidelines)
            block == ModePrompt(mode, platform, config, Len(files))
        IN  IF config.brandGuidelines # ""
            THEN \E i \in 1..Len(text) :
                    /\ OccursAt(guard, text, i)
                    /\ Occurs(config.brandGuidelines, guard)
                    /\ HasLiveSearchBlock => i > Len(TrendHunterInstruction(CurrentDate, platform))
                    /\ \E j \in (i + Len(guard))..Len(text) : OccursAt(block, text, j)
            ELSE ~Occurs("**BRAND GUARD ACTIVE**", text)

\* the lines of a text: the runs of pieces between line breaks
RECURSIVE SplitLines(_, _)
SplitLines(t, line) ==
    IF t = << >> THEN << line >>
    ELSE IF Head(t) = NL THEN << line >> \o SplitLines(Tail(t), << >>)
    ELSE SplitLines(Tail(t), Append(line, Head(t)))

Lines(t) == SplitLines(t, << >>)

\* a line that is empty or has nothing but spaces
IsBlankLine(line) == \A i \in 1..Len(line) : line[i] \in {Indent, "  ", " "}

\* the number of blank lines of a text
BlankLines(t) == Cardinality({ i \in 1..Len(Lines(t)) : IsBlankLine(Lines(t)[i]) })

\* a line without the spaces it starts with
RECURSIVE Unindent(_)
Unindent(line) ==
    IF line # << >> /\ Head(line) \in {Indent, "  ", " "} THEN Unindent(Tail(line)) ELSE line

\* the labelled lines the spec gives the targeting fields of a config: one for
\* each non-empty field, in the order geography, audience, language,
\* demographics
LabelledLines(cfg) ==
    (IF cfg.geography # ""      THEN << << "Target Geography: ", cfg.geography >> >> ELSE << >>)
    \o (IF cfg.targetAudience # "" THEN << << "Target Audience: ", cfg.targetAudience >> >> ELSE << >>)
    \o (IF cfg.targetLanguage # "" THEN << << "Target Language: ", cfg.targetLanguage >> >> ELSE << >>)
    \o (IF cfg.demographics # ""   THEN << << "Target Demographics: ", cfg.demographics >> >> ELSE << >>)

\* a line that carries one of the four targeting labels
IsTargetingLine(line) ==
    \E l \in {"Target Geography: ", "Target Audience: ", "Target Language: ", "Target Demographics: "} :
        Occurs(l, line)

\* the targeting lines of a text, in order, without their indentation
TargetingLinesOf(t) ==
    LET ls == Lines(t)
        F[i \in 0..Len(ls)] ==
            IF i = 0 THEN << >>
            ELSE IF IsTargetingLine(ls[i]) THEN Append(F[i - 1], Unindent(ls[i])) ELSE F[i - 1]
    IN  F[Len(ls)]

\* the config with every targeting field filled
AllTargeted(cfg) ==
    [cfg EXCEPT !.geography = "Brazil", !.targetAudience = "Gen Z",
                !.targetLanguage = "Portuguese", !.demographics = "18-24"]

\* C24: in every mode and for every config the targeting lines of the
\* composed prompt are one labelled line for each non-empty targeting field,
\* in the order geography, audience, language, demographics, and an empty
\* field leaves no line behind, blank or not: the prompt has as many blank
\* lines as the prompt of the same call with all four fields filled.
C24_EmptyTargetingLeavesNoLine ==
    Composed =>
        /\ TargetingLinesOf(parts[1].text) = LabelledLines(config)
        /\ BlankLines(parts[1].text)
              = BlankLines(PromptText(mode, platform, AllTargeted(config), Len(files)))

\* C25: the upload and the polling of a large file run under the request's
\* timeout: while uploadLargeFile is running the 60 s timer of the request
\* has been set, and once the timer has fired or the controller has aborted
\* no upload or status query is pending.
C25_PollingCoveredByTimeout ==
    /\ Uploading => timer # "none"
    /\ (timer = "fired" \/ aborted) => ~Uploading

\* C27: every analysis that starts ends: whenever isAnalyzing is true it is
\* false again later, so the action button does not stay disabled for ever.
C27_AnalysisEventuallyEnds == isAnalyzing ~> ~isAnalyzing

\* the ways the pending call of analyzeContent can settle its promise in the
\* next step
Settlements ==
    CASE pc = "generate" ->
           { s \in { AfterGenerate(Svc, reply) : reply \in Replies } : Settled(s) }
           \cup { Throw(Svc, InnerCatch(e)) : e \in TransportErrors }
      [] pc = "read" -> { Throw(Svc, ReadError) }
      [] pc \in {"upload", "get", "poll"} -> { Throw(Svc, Err("Error", MsgUploadFailed)) }
      [] OTHER -> {}

\* the request that is running finishes in this step
Finishes == isAnalyzing /\ ~isAnalyzing'

\* how many of result, trendResults and error are non-null
NonNull == (IF result # Nil THEN 1 ELSE 0) + (IF trendResults # Nil THEN 1 ELSE 0)
               + (IF error # Null THEN 1 ELSE 0)

\* handleAnalyze resumes with analyzeContent settled as s
ResumesWith(s) ==
    /\ handler = "awaiting"
    /\ HandleAnalyzeResume(s, [result |-> result, trendResults |-> trendResults, error |-> error])

\* what a request of mode m, settled as s, leaves non-null: trendResults after
\* a successful Trend Hunter request, result after a successful request of
\* another mode, error after a failure
LeavesItsOutcome(m, s) ==
    /\ (s.outcome.kind = "value" /\ m = TREND_HUNTER)
          => (trendResults' # Nil /\ result' = Nil /\ error' = Null)
    /\ (s.outcome.kind = "value" /\ m # TREND_HUNTER)
          => (result' # Nil /\ trendResults' = Nil /\ error' = Null)
    /\ s.outcome.kind = "error"
          => (error' # Null /\ result' = Nil /\ trendResults' = Nil)

\* C28, as stated: a request that passed the validation finishes with
\* exactly one of result, trendResults and error non-null, the one its mode
\* and its outcome call for, and result and error are never both non-null.
C28_AsStated ==
    /\ [][ (Finishes /\ mode = call.mode)
              => \A s \in Settlements :
                    ResumesWith(s) => (NonNull' = 1 /\ LeavesItsOutcome(mode, s)) ]_vars
    /\ [](~(result # Nil /\ error # Null))

\* C28, amended: a request that passed the validation finishes with exactly
\* one of result, trendResults and error non-null, the one its mode and its
\* outcome call for; the total-size rejection leaves the error alone; and
\* result or trendResults stands next to an error only after a click that
\* failed the validation, which sets the error and clears nothing.
C28_ExactlyOneAfterRequest ==
    /\ [][ (Finishes /\ mode = call.mode)
              => \A s \in Settlements :
                    ResumesWith(s) => (NonNull' = 1 /\ LeavesItsOutcome(mode, s)) ]_vars
    /\ [][ (HandleAnalyze /\ ~MissingRequiredInput(mode, files, config) /\ ~isAnalyzing')
              => (error' # Null /\ result' = Nil /\ trendResults' = Nil) ]_vars
    /\ [][ (NonNull <= 1 /\ NonNull' > 1)
              => (HandleAnalyze /\ MissingRequiredInput(mode, files, config)) ]_vars

\* C28 witness: a request has failed: the service's error is showing and
\* neither a result nor a trend list is
C28_Witness ==
    /\ error = MsgTimedOut
    /\ result = Nil
    /\ trendResults = Nil
    /\ ~isAnalyzing
    /\ pc = "idle"

\* C29: the output on display belongs to the selected mode: a non-null
\* result implies the mode is not Trend Hunter, a non-null trendResults
\* implies it is Trend Hunter, and a reply is stored only when the mode is
\* still the mode of its request.
C29_OutputBelongsToMode ==
    /\ [](result # Nil => mode # TREND_HUNTER)
    /\ [](trendResults # Nil => mode = TREND_HUNTER)
    /\ [][ (Finishes /\ (result' # Nil \/ trendResults' # Nil)) => mode' = call.mode ]_vars

\* C30: the main screen is shown only while apiKey is non-empty; saving a
\* text that does not start with AIza changes neither apiKey nor
\* showGatekeeper nor the stored key; saving one that does stores it, makes
\* it the apiKey and opens the main screen; Change Key removes the stored
\* key, empties apiKey and shows the gate again.
C30_MainScreenOnlyWithKey ==
    /\ [](~showGatekeeper => apiKey # "")
    /\ [][ (HandleSaveKey /\ ~StartsWithAIza(tempKey))
              => UNCHANGED <<apiKey, showGatekeeper, storedKey>> ]_vars
    /\ [][ (HandleSaveKey /\ StartsWithAIza(tempKey))
              => (storedKey' = tempKey /\ apiKey' = tempKey /\ ~showGatekeeper') ]_vars
    /\ [][ ChangeKey => (storedKey' = Null /\ apiKey' = "" /\ showGatekeeper') ]_vars

\* C30 witness: a key typed into the gate was accepted and stored, and the
\* main screen is open with it
C30_Witness ==
    /\ ~showGatekeeper
    /\ tempKey = "AIzaOther"
    /\ apiKey = "AIzaOther"
    /\ storedKey = "AIzaOther"

\* C26: while an analysis is running loadingProgress is at most 90; it
\* becomes 100 only in a state where no analysis is running and a result or
\* a trend list is present; when a request finishes with an error
\* loadingProgress is not 100.
C26_ProgressCappedUntilResult ==
    /\ [](isAnalyzing => loadingProgress <= 90)
    /\ [][ (loadingProgress # 100 /\ loadingProgress' = 100)
              => (~isAnalyzing' /\ (result' # Nil \/ trendResults' # Nil)) ]_vars
    /\ [][ (Finishes /\ error' # Null) => loadingProgress' # 100 ]_vars

====
